---- MODULE Spec2Model ----
(***************************************************************************)
(* Model of src/src/cartesian.rs: the scalar and vector distance kernels   *)
(* and the four drivers that chunk four coordinate slices, apply a kernel  *)
(* per chunk and concatenate the per-chunk vectors.                        *)
(*                                                                         *)
(* Values of T are integers.  The inputs are small whole numbers, for      *)
(* which the differences, the squares and their sum are exact in any float *)
(* type, so the fused multiply-add and the separate multiply and add give  *)
(* the same radicand; sqrt is modelled as the square root in thousandths,  *)
(* rounded down (sqrt(2) is 1414).                                         *)
(*                                                                         *)
(* A slice is a record [off, data]: the offset of its first element in the *)
(* array it borrows from (its pointer) and its elements.                   *)
(*                                                                         *)
(* The state holds every vector packed: as its runs <<value, count>> of    *)
(* equal neighbours, in order.  Packed and Flat convert; the program's     *)
(* operations are applied to the flat vectors.                             *)
(***************************************************************************)
EXTENDS Integers, Sequences, FiniteSets, TLC

VARIABLES
    lhs_x, lhs_y, rhs_x, rhs_y, \* the four argument slices of the call
    func,                       \* the driver that was called
    pc,                         \* "called" | "running" | "returned" | "panicked"
    units,                      \* the parallel iterator's pieces, in chunk order
    splits,                     \* how many times a piece was split so far
    batches,                    \* history: the Simd::from_slice argument windows
    result                      \* the Vec<T> handed back to the caller

vars == <<lhs_x, lhs_y, rhs_x, rhs_y, func, pc, units, splits, batches, result>>

-----------------------------------------------------------------------------
(* Bounds of the model *)

\* Largest coordinate value of the generated inputs.
MaxCoord == 2

\* How often the parallel iterator may split a piece in one call.
MaxSplits == 2

-----------------------------------------------------------------------------
(* Program constants *)

\* static CHUNKS_LENGTH of cartesian_seq_simd
CHUNKS_LENGTH_seq_simd == 64

\* static CHUNKS_LENGTH of cartesian_par_simd
CHUNKS_LENGTH_par_simd == 64

\* static CHUNKS_LENGTH of cartesian_par_elementwise
CHUNKS_LENGTH_par_elementwise == 128000

\* A block size that is not a multiple of the lane width.
BatchBlockNotLaneMultiple == 1000 * 100

\* static CHUNKS_LENGTH of cartesian_par_batch_simd
CHUNKS_LENGTH_par_batch_simd == 128000

\* const SIMD_LENGTH of cartesian_par_batch_simd's work unit
SIMD_LENGTH == 64

\* the lane count N of Simd::<T, 64>
LANES == 64

-----------------------------------------------------------------------------
(* Helpers *)

Min(S) == CHOOSE m \in S : \A k \in S : m <= k

\* The element of a one-element set.  Force({e(x) : x \in {d}}) is e(d)
\* with d evaluated once.
Force(S) == CHOOSE x \in S : TRUE

\* A sequence held as a tuple.
Vec(f) == SubSeq(f, 1, Len(f))

\* The concatenation ss[lo] \o ... \o ss[hi] (empty when lo > hi).
RECURSIVE Concat(_, _, _)
Concat(ss, lo, hi) ==
    IF lo > hi THEN <<>>
    ELSE IF lo = hi THEN Vec(ss[lo])
    ELSE LET m == (lo + hi) \div 2
         IN Concat(ss, lo, m) \o Concat(ss, m + 1, hi)

\* The vector of the runs rs: each value repeated count times, in order.
Flat(rs) ==
    Concat([k \in 1..Len(rs) |-> [j \in 1..rs[k][2] |-> rs[k][1]]], 1, Len(rs))

\* The runs p[1] followed by the runs p[2]: the last run of the one and
\* the first of the other become one run when they hold the same value.
Joined(p) ==
    IF p[1] = <<>> THEN p[2]
    ELSE IF p[2] = <<>> THEN p[1]
    ELSE IF p[1][Len(p[1])][1] = p[2][1][1]
    THEN SubSeq(p[1], 1, Len(p[1]) - 1)
         \o <<<<p[2][1][1], p[1][Len(p[1])][2] + p[2][1][2]>>>>
         \o SubSeq(p[2], 2, Len(p[2]))
    ELSE p[1] \o p[2]

\* The runs of v[lo..hi].
RECURSIVE PackedRange(_, _, _)
PackedRange(v, lo, hi) ==
    IF lo > hi THEN <<>>
    ELSE IF \A i \in lo..hi : v[i] = v[lo] THEN <<<<v[lo], hi - lo + 1>>>>
    ELSE Force({Joined(p) :
                p \in {<<PackedRange(v, lo, (lo + hi) \div 2),
                         PackedRange(v, (lo + hi) \div 2 + 1, hi)>>}})

\* The runs of the vector v.
Packed(v) == PackedRange(v, 1, Len(v))

\* T::sqrt on an exact small radicand, in thousandths, rounded down.
SqrtTable ==
    [q \in 0..(2 * MaxCoord * MaxCoord) |->
        CHOOSE r \in 0..(1000 * (q + 1)) :
            r * r <= q * 1000000 /\ (r + 1) * (r + 1) > q * 1000000]

sqrt(q) == SqrtTable[q]

\* The product alone, the addend lost.
mul_only(a, b, c) == a * b

\* StdFloat::mul_add: a * b + c with one rounding; exact on these inputs.
mul_add(a, b, c) == a * b + c

-----------------------------------------------------------------------------
(* Kernels *)

cartesian_elementwise(lx, ly, rx, ry) ==
    LET diff_x == rx - lx
        diff_y == ry - ly
    IN sqrt(diff_x * diff_x + diff_y * diff_y)

cartesian_simd_shifted(lx, ly, rx, ry) ==
    [i \in 1..LANES |->
        LET j == (i % LANES) + 1
            diff_x == rx[j] - lx[j]
            diff_y == ry[j] - ly[j]
        IN sqrt(mul_add(diff_x, diff_x, diff_y * diff_y))]

\* Lane-wise on four Simd<T, 64> values.
cartesian_simd(lx, ly, rx, ry) ==
    [i \in 1..LANES |->
        LET diff_x == rx[i] - lx[i]
            diff_y == ry[i] - ly[i]
        IN sqrt(mul_add(diff_x, diff_x, diff_y * diff_y))]

-----------------------------------------------------------------------------
(* Slices and iterator adaptors *)

chunks_with_remainder(s, n) ==
    [c \in 1..((Len(s.data) + n - 1) \div n) |->
        [off  |-> s.off + (c - 1) * n,
         data |-> SubSeq(s.data, (c - 1) * n + 1,
                         IF c * n <= Len(s.data) THEN c * n ELSE Len(s.data))]]

\* [T]::chunks_exact and par_chunks_exact: the full chunks of n elements;
\* the remainder of fewer than n elements is left out.
chunks_exact(s, n) ==
    [c \in 1..(Len(s.data) \div n) |->
        [off  |-> s.off + (c - 1) * n,
         data |-> SubSeq(s.data, (c - 1) * n + 1, c * n)]]

\* The number of items of an iterator (a function on 1..n).
Count(it) == Cardinality(DOMAIN it)

zip4_misaligned(a, b, c, d) ==
    LET n == Min({Count(a), Count(b), Count(c), Count(d)})
    IN [k \in 1..n |-> <<a[k], b[k], c[k], d[n + 1 - k]>>]

\* a.zip(b).zip(c).zip(d): as long as the shortest of the four.
zip4(a, b, c, d) ==
    [k \in 1..Min({Count(a), Count(b), Count(c), Count(d)}) |->
        <<a[k], b[k], c[k], d[k]>>]

\* Simd::from_slice panics on a slice shorter than the lane count and
\* otherwise reads the first LANES elements.
from_slice_ok(s) == Len(s.data) >= LANES

from_slice(s) == SubSeq(s.data, 1, LANES)

\* The windows of one group of four from_slice calls.
Window(t) == <<<<t[1].off, Len(t[1].data)>>, <<t[2].off, Len(t[2].data)>>,
               <<t[3].off, Len(t[3].data)>>, <<t[4].off, Len(t[4].data)>>>>

-----------------------------------------------------------------------------
(* Work units: each yields [ok, val, calls]: whether it ran without a panic,
   the vector it produced, and the from_slice windows it read. *)

\* Four from_slice calls and one cartesian_simd call on a zipped chunk.
simd_closure(t) ==
    Force({IF \A k \in 1..4 : from_slice_ok(s[k])
           THEN Force({[ok    |-> TRUE,
                        val   |-> Vec(cartesian_simd(v[1], v[2], v[3], v[4])),
                        calls |-> {Window(s)}] :
                       v \in {<<from_slice(s[1]), from_slice(s[2]),
                                from_slice(s[3]), from_slice(s[4])>>}})
           ELSE [ok |-> FALSE, val |-> <<>>, calls |-> {Window(s)}] :
           s \in {t}})

\* The calls of the steps up to and including the first that panics.
CallsOf(steps, n) ==
    LET bad  == {k \in 1..n : ~steps[k].ok}
        last == IF bad = {} THEN n ELSE Min(bad)
    IN UNION {steps[j].calls : j \in 1..last}

\* fold(init, |v, r| { v.extend(r); v }) over the steps' vectors: init
\* followed by the vectors in step order (extend is associative, so the
\* left fold is evaluated as a balanced concatenation).
fold_extend(init, steps, n) ==
    init \o Concat([j \in 1..n |-> steps[j].val], 1, n)

\* The outcome of running the steps in order and folding their vectors
\* into init: a panic in a step ends the run.
Folded(init, steps) ==
    [ok    |-> \A j \in 1..Len(steps) : steps[j].ok,
     val   |-> IF \A j \in 1..Len(steps) : steps[j].ok
               THEN fold_extend(init, steps, Len(steps))
               ELSE <<>>,
     calls |-> CallsOf(steps, Len(steps))]

\* The work unit of cartesian_par_elementwise on one zipped block.
elementwise_closure(t) ==
    Force({[ok    |-> TRUE,
            val   |-> Vec([i \in 1..Min({Len(s[1].data), Len(s[2].data),
                                         Len(s[3].data), Len(s[4].data)}) |->
                              cartesian_elementwise(s[1].data[i], s[2].data[i],
                                                    s[3].data[i], s[4].data[i])]),
            calls |-> {}] :
           s \in {t}})

batch_closure_misaligned(t) ==
    Force({Folded(<<>>, steps) :
           steps \in {Force({Vec([j \in 1..Count(zs) |-> simd_closure(zs[j])]) :
                             zs \in {zip4_misaligned(chunks_exact(s[1], SIMD_LENGTH),
                                                     chunks_exact(s[2], SIMD_LENGTH),
                                                     chunks_exact(s[3], SIMD_LENGTH),
                                                     chunks_exact(s[4], SIMD_LENGTH)) :
                                     s \in {t}}})}})

\* The work unit of cartesian_par_batch_simd on one zipped block.
batch_closure(t) ==
    Force({Folded(<<>>, steps) :
           steps \in {Force({Vec([j \in 1..Count(zs) |-> simd_closure(zs[j])]) :
                             zs \in {zip4(chunks_exact(s[1], SIMD_LENGTH),
                                          chunks_exact(s[2], SIMD_LENGTH),
                                          chunks_exact(s[3], SIMD_LENGTH),
                                          chunks_exact(s[4], SIMD_LENGTH)) :
                                     s \in {t}}})}})

-----------------------------------------------------------------------------
(* Drivers *)

Drivers == {"cartesian_seq_simd", "cartesian_par_elementwise",
            "cartesian_par_simd", "cartesian_par_batch_simd"}

ParDrivers == Drivers \ {"cartesian_seq_simd"}

AsSlice(arr) == [off |-> 0, data |-> arr]

ChunkLen_blocks_first(f) ==
    CASE f = "cartesian_seq_simd"        -> CHUNKS_LENGTH_seq_simd
      [] f = "cartesian_par_simd"        -> CHUNKS_LENGTH_par_elementwise
      [] f = "cartesian_par_elementwise" -> CHUNKS_LENGTH_par_elementwise
      [] f = "cartesian_par_batch_simd"  -> CHUNKS_LENGTH_par_batch_simd

\* The chunk length of driver f's outer chunks_exact / par_chunks_exact.
ChunkLen(f) ==
    CASE f = "cartesian_seq_simd"        -> CHUNKS_LENGTH_seq_simd
      [] f = "cartesian_par_simd"        -> CHUNKS_LENGTH_par_simd
      [] f = "cartesian_par_elementwise" -> CHUNKS_LENGTH_par_elementwise
      [] f = "cartesian_par_batch_simd"  -> CHUNKS_LENGTH_par_batch_simd

\* The zipped outer chunks driver f iterates over.
Zipped(f, lx, ly, rx, ry) ==
    zip4(chunks_exact(AsSlice(lx), ChunkLen(f)), chunks_exact(AsSlice(ly), ChunkLen(f)),
         chunks_exact(AsSlice(rx), ChunkLen(f)), chunks_exact(AsSlice(ry), ChunkLen(f)))

\* The closure driver f maps (or folds) over its zipped chunks.
Closure(f, t) ==
    CASE f = "cartesian_seq_simd"        -> simd_closure(t)
      [] f = "cartesian_par_simd"        -> simd_closure(t)
      [] f = "cartesian_par_elementwise" -> elementwise_closure(t)
      [] f = "cartesian_par_batch_simd"  -> batch_closure(t)

\* The steps of driver f on zipped chunks lo..hi, as a sequence 1..(hi-lo+1).
Steps(f, zs, lo, hi) == Vec([j \in 1..(hi - lo + 1) |-> Closure(f, zs[lo + j - 1])])

\* Driver f's closure applied to zipped chunks lo..hi in chunk order, the
\* vectors folded into init: [ok, val, calls] as for one work unit.
RunChunks(f, lx, ly, rx, ry, lo, hi, init) ==
    Force({Folded(init, steps) :
           steps \in {Steps(f, Zipped(f, lx, ly, rx, ry), lo, hi)}})

\* The number of zipped chunks driver f iterates over.
NumChunks(f, lx, ly, rx, ry) == Count(Zipped(f, lx, ly, rx, ry))

reduce_op_swapped(v1, v2) == Joined(<<v2, v1>>)

\* The reduce closure |mut v1, v2| { v1.extend(v2); v1 }, on packed vectors.
reduce_op(v1, v2) == Joined(<<v1, v2>>)

\* The reduce identity || Vec::with_capacity(CHUNKS_LENGTH): an empty vector.
identity == <<>>

-----------------------------------------------------------------------------
(* Inputs *)

\* Element i (from 1) of an array of the given pattern: the concrete
\* scenario; values that change from index to index; long stretches of one
\* value with the changing values at the start of each stretch.
Ramp(name, i) ==
    CASE name = "lhs_x" -> i % (MaxCoord + 1)
      [] name = "lhs_y" -> (i \div 3) % (MaxCoord + 1)
      [] name = "rhs_x" -> MaxCoord - (i % 2)
      [] name = "rhs_y" -> (i \div 2) % (MaxCoord + 1)

Stretch(name, k) ==
    CASE name = "lhs_x" -> k % (MaxCoord + 1)
      [] name = "lhs_y" -> 0
      [] name = "rhs_x" -> MaxCoord
      [] name = "rhs_y" -> ((k \div 2) * 2) % (MaxCoord + 1)

Element(pat, name, i) ==
    CASE pat = "sqrt2" ->
            (CASE name = "lhs_x" -> 0 [] name = "lhs_y" -> 1
               [] name = "rhs_x" -> 1 [] name = "rhs_y" -> 0)
      [] pat = "ramp" -> Ramp(name, i)
      [] pat = "stretches" ->
            IF (i - 1) % 64000 < 70 THEN Ramp(name, i)
            ELSE Stretch(name, (i - 1) \div 64000)

Array(pat, name, n) == Vec([i \in 1..n |-> Element(pat, name, i)])

\* The array lengths and patterns of the calls made:
\* <<len lhs_x, len lhs_y, len rhs_x, len rhs_y, pattern>>.
SmallLens == {0, 5, 64, 128, 133, 261}

EqualSmall  == {<<n, n, n, n, p>> : n \in SmallLens, p \in {"sqrt2", "ramp"}}

Mismatched  == {<<128, 128, 64, 128, "ramp">>, <<133, 70, 133, 133, "ramp">>,
                <<64, 64, 64, 5, "ramp">>}

OneBlock    == LET n == CHUNKS_LENGTH_par_elementwise IN <<n, n, n, n, "stretches">>

TwoBlocks   == LET n == 2 * CHUNKS_LENGTH_par_elementwise + 133
               IN <<n, n, n, n, "stretches">>

\* The calls made on arrays of a few lanes: <<arrays, driver>>.
SmallCalls == (EqualSmall \cup Mismatched) \X Drivers

\* The calls made: arrays of one and of two blocks go to the drivers that
\* work block by block.
Calls ==
    SmallCalls
    \cup ({OneBlock, TwoBlocks}
             \X {"cartesian_par_elementwise", "cartesian_par_batch_simd"})

-----------------------------------------------------------------------------
(* The state machine of one call *)

\* The four argument slices' elements.
Args == <<Flat(lhs_x), Flat(lhs_y), Flat(rhs_x), Flat(rhs_y)>>

\* The state in which one of the given calls has just been made.
Called(calls) ==
    /\ \E c \in calls :
          /\ lhs_x = Packed(Array(c[1][5], "lhs_x", c[1][1]))
          /\ lhs_y = Packed(Array(c[1][5], "lhs_y", c[1][2]))
          /\ rhs_x = Packed(Array(c[1][5], "rhs_x", c[1][3]))
          /\ rhs_y = Packed(Array(c[1][5], "rhs_y", c[1][4]))
          /\ func = c[2]
    /\ pc = "called"
    /\ units = <<>>
    /\ splits = 0
    /\ batches = {}
    /\ result = <<>>

Init == Called(Calls)

InitSmall == Called(SmallCalls)

\* cartesian_seq_simd: one sequential fold over the zipped chunks.
cartesian_seq_simd ==
    /\ pc = "called"
    /\ func = "cartesian_seq_simd"
    /\ \E a \in {Args} :
       \E r \in {RunChunks(func, a[1], a[2], a[3], a[4], 1,
                           NumChunks(func, a[1], a[2], a[3], a[4]), <<>>)} :
          /\ batches' = r.calls
          /\ IF r.ok
             THEN /\ result' = Packed(r.val)
                  /\ pc' = "returned"
             ELSE /\ result' = result
                  /\ pc' = "panicked"
    /\ UNCHANGED <<lhs_x, lhs_y, rhs_x, rhs_y, func, units, splits>>

\* A parallel driver builds its zipped indexed parallel iterator: one
\* piece that covers every zipped chunk.
par_iter ==
    /\ pc = "called"
    /\ func \in ParDrivers
    /\ \E a \in {Args} :
          units' = <<[lo |-> 1, hi |-> NumChunks(func, a[1], a[2], a[3], a[4]),
                      st |-> "pending", val |-> <<>>]>>
    /\ pc' = "running"
    /\ UNCHANGED <<lhs_x, lhs_y, rhs_x, rhs_y, func, splits, batches, result>>

\* Where the pool splits a piece: at half its length.
split_mid(u) == (u.hi - u.lo + 1) \div 2

\* The pool splits a pending piece of two or more chunks in two.
split(i) ==
    /\ pc = "running"
    /\ splits < MaxSplits
    /\ units[i].st = "pending"
    /\ units[i].hi - units[i].lo + 1 >= 2
    /\ LET u   == units[i]
           mid == u.lo + split_mid(u)
       IN units' = SubSeq(units, 1, i - 1)
                   \o <<[u EXCEPT !.hi = mid - 1], [u EXCEPT !.lo = mid]>>
                   \o SubSeq(units, i + 1, Len(units))
    /\ splits' = splits + 1
    /\ UNCHANGED <<lhs_x, lhs_y, rhs_x, rhs_y, func, pc, batches, result>>

\* A worker runs a pending piece: it folds the map closure's vectors of
\* the piece's chunks, in chunk order, into the reduce identity.
run(i) ==
    /\ pc = "running"
    /\ units[i].st = "pending"
    /\ \E a \in {Args} :
       \E r \in {RunChunks(func, a[1], a[2], a[3], a[4],
                           units[i].lo, units[i].hi, identity)} :
          /\ batches' = batches \cup r.calls
          /\ IF r.ok
             THEN /\ units' = [units EXCEPT ![i] =
                                  [@ EXCEPT !.st = "done", !.val = Packed(r.val)]]
                  /\ pc' = pc
             ELSE /\ units' = units
                  /\ pc' = "panicked"
    /\ UNCHANGED <<lhs_x, lhs_y, rhs_x, rhs_y, func, splits, result>>

\* The reduce closure joins two finished neighbours.
reduce(i) ==
    /\ pc = "running"
    /\ i + 1 <= Len(units)
    /\ units[i].st = "done"
    /\ units[i + 1].st = "done"
    /\ units' = SubSeq(units, 1, i - 1)
                \o <<[lo  |-> units[i].lo, hi |-> units[i + 1].hi, st |-> "done",
                      val |-> reduce_op(units[i].val, units[i + 1].val)]>>
                \o SubSeq(units, i + 2, Len(units))
    /\ UNCHANGED <<lhs_x, lhs_y, rhs_x, rhs_y, func, pc, splits, batches, result>>

join_early == units[1].st = "done"

\* The join barrier: every piece has run and has been reduced into one.
joined == Len(units) = 1 /\ units[1].st = "done"

\* reduce() hands the one remaining vector back to the caller.
return ==
    /\ pc = "running"
    /\ joined
    /\ result' = units[1].val
    /\ pc' = "returned"
    /\ UNCHANGED <<lhs_x, lhs_y, rhs_x, rhs_y, func, units, splits, batches>>

Next ==
    \/ cartesian_seq_simd
    \/ par_iter
    \/ \E i \in 1..Len(units) : split(i)
    \/ \E i \in 1..Len(units) : run(i)
    \/ \E i \in 1..Len(units) : reduce(i)
    \/ return

Spec == Init /\ [][Next]_vars

\* The pool keeps running pieces, reducing and returning while it can: a
\* worker that has work to do does it.  The calls are those on small arrays.
FairSpec == InitSmall /\ [][Next]_vars /\ WF_vars(Next)

-----------------------------------------------------------------------------
(* Properties *)

N == Len(Flat(lhs_x))

EqualLen == Len(Flat(lhs_y)) = N /\ Len(Flat(rhs_x)) = N /\ Len(Flat(rhs_y)) = N

Returned == pc = "returned"

\* The vector handed back, element by element.
Output == Flat(result)

\* The number of zipped chunks of the call.
Chunks == Force({NumChunks(func, a[1], a[2], a[3], a[4]) : a \in {Args}})

\* The per-chunk result vectors of the called driver, chunks lo..hi,
\* concatenated in ascending chunk index.
InChunkOrder(lo, hi) ==
    Force({Concat([j \in 1..(hi - lo + 1) |-> Closure(func, zs[lo + j - 1]).val],
                  1, hi - lo + 1) :
           zs \in {Force({Zipped(func, a[1], a[2], a[3], a[4]) : a \in {Args}})}})

\* The pieces are consecutive chunk ranges that cover every zipped chunk.
Partitioned ==
    /\ units[1].lo = 1
    /\ units[Len(units)].hi = Chunks
    /\ \A i \in 1..(Len(units) - 1) : units[i + 1].lo = units[i].hi + 1

\* C1: a parallel driver returns, under every order in which the pieces run
\* and every grouping in which finished neighbours are reduced, the
\* concatenation of the per-chunk result vectors in ascending chunk index.
C1_ChunkOrder ==
    (func \in ParDrivers /\ pc \in {"running", "returned"}) =>
        /\ Partitioned
        /\ Returned => Output = InChunkOrder(1, Chunks)

C1_Witness ==
    /\ Returned
    /\ func = "cartesian_par_simd"
    /\ splits = MaxSplits
    /\ N = 261
    /\ Len(Output) = 256
    /\ Output[1] # Output[65]

C3_TruncatedLength ==
    EqualLen =>
        /\ pc # "panicked"
        /\ (Returned /\ func = "cartesian_seq_simd") =>
              Len(Output) = (N \div 64) * 64
        /\ (Returned /\ func = "cartesian_par_elementwise") =>
              Len(Output) = (N \div 128000) * 128000

C3_Witness ==
    /\ Returned
    /\ EqualLen
    /\ func = "cartesian_seq_simd"
    /\ N = 133
    /\ Len(Output) = 128

ParSimdResult ==
    Force({RunChunks("cartesian_par_simd", a[1], a[2], a[3], a[4], 1,
                     NumChunks("cartesian_par_simd", a[1], a[2], a[3], a[4]),
                     identity).val :
           a \in {Args}})

C6_RejectsMismatched ==
    ~EqualLen =>
        /\ ~Returned
        /\ batches = {}
        /\ \A i \in 1..Len(units) : units[i].st # "done"

\* The arrays of the concrete scenario, n points each.
Scenario(n) ==
    /\ N = n
    /\ EqualLen
    /\ \A a \in {Args} :
          \A i \in 1..n : a[1][i] = 0 /\ a[2][i] = 1 /\ a[3][i] = 1 /\ a[4][i] = 0

AllSqrt2(v) == \A i \in 1..Len(v) : v[i] = 1414

\* C7 as claimed: in the scenario with N = 128 every driver returns 128
\* elements, each sqrt(2).
C7_All128 ==
    (Returned /\ Scenario(128)) =>
        \A out \in {Output} : Len(out) = 128 /\ AllSqrt2(out)

\* C7 amended: in the scenario with N = 128, a multiple of the lane width
\* 64 but not of the block size 128000, cartesian_seq_simd and
\* cartesian_par_simd return 128 elements, each sqrt(2), and
\* cartesian_par_elementwise and cartesian_par_batch_simd return none.
C7_Scenario ==
    (Returned /\ Scenario(128)) =>
        \A out \in {Output} :
            IF func \in {"cartesian_seq_simd", "cartesian_par_simd"}
            THEN Len(out) = 128 /\ AllSqrt2(out)
            ELSE Len(out) = 0

C7_Witness ==
    /\ Returned
    /\ Scenario(128)
    /\ func = "cartesian_par_simd"
    /\ splits = 1
    /\ Len(Output) = 128
    /\ Output[128] = 1414

\* Nothing is handed to the caller before the return, and the return comes
\* after every piece has run and has been reduced into the one vector.
JoinBarrier ==
    func \in ParDrivers =>
        /\ ~Returned => result = <<>>
        /\ Returned =>
              /\ joined
              /\ units[1].lo = 1
              /\ units[1].hi = Chunks
              /\ result = units[1].val

\* C8: every call of a parallel driver eventually returns, and only after
\* every work unit has completed and has been folded into the result.
C8_ReturnsAfterJoin ==
    /\ [](JoinBarrier)
    /\ (func \in ParDrivers) ~> Returned

C8_Witness ==
    /\ Returned
    /\ func \in ParDrivers
    /\ splits = MaxSplits
    /\ Len(units) = 1
    /\ Len(Output) = 256

\* C9: every group of four slices handed to Simd::from_slice has 64
\* elements in each slice, all four from the same index window.
C9_FullBatches ==
    \A w \in batches :
        \A k \in 1..4 : w[k][2] = 64 /\ w[k][1] = w[1][1]

C9_Witness ==
    /\ Returned
    /\ func = "cartesian_par_batch_simd"
    /\ N = 256133
    /\ Cardinality(batches) = 4000

\* C10: the inner width-64 windows of cartesian_par_batch_simd drop no
\* element of a block (128000 = 2000 * 64), so on four arrays of length N it
\* returns floor(N/128000)*128000 elements, as cartesian_par_elementwise does.
C10_InnerDropsNothing ==
    (Returned /\ EqualLen /\ func = "cartesian_par_batch_simd") =>
        /\ Len(Output) = (N \div 128000) * 128000
        /\ \A a \in {Args} :
              Len(Output) =
                  Len(RunChunks("cartesian_par_elementwise", a[1], a[2], a[3], a[4], 1,
                          NumChunks("cartesian_par_elementwise", a[1], a[2], a[3], a[4]),
                          identity).val)
        /\ Cardinality(batches) = (N \div 128000) * 2000

C10_Witness ==
    /\ Returned
    /\ EqualLen
    /\ func = "cartesian_par_batch_simd"
    /\ N = 128000
    /\ Len(Output) = 128000
    /\ Cardinality(batches) = 2000

====
